---- MODULE Spec2Model ----
(***************************************************************************)
(* BitBLT2: bit-block transfer between bit-packed bitmaps.                 *)
(*                                                                         *)
(* The model covers the bitmap primitives and the two per-pixel and two    *)
(* per-word transfer routines of src/bitblt.js (stored in                  *)
(* src/src/jit_executor.js from line 210 on) and the JIT compiler          *)
(* (src/unnamed/part_000), and the code-caching executor of               *)
(* src/jit_executor.js (src/src/jit_executor.js up to line 208).           *)
(*                                                                         *)
(* A 32-bit word is the set of its set bit positions (bit b has weight     *)
(* 2^b); JavaScript's bitwise operators work on exactly this bit pattern.  *)
(* A JavaScript array is a function from the indices that hold a value to  *)
(* those values: a read outside its domain yields Undefined, a write       *)
(* outside its domain extends it.                                          *)
(***************************************************************************)
EXTENDS Integers, Sequences, FiniteSets, TLC

VARIABLES heap, pre, call, status,
          codeCache, defaultGenerator, tasks, log

\* the state of the executor, and the history kept about it
execVars == <<codeCache, defaultGenerator, tasks, log>>

vars == <<heap, pre, call, status, codeCache, defaultGenerator, tasks, log>>

----------------------------------------------------------------------------
(* Bounds of the model: the dimensions of the two bitmaps of a run.        *)

AWidth == 96
AHeight == 3
BWidth == 40
BHeight == 2

\* the number of execute calls of a run of the executor
MaxTasks == 2

----------------------------------------------------------------------------
(* JavaScript arithmetic and 32-bit words.                                 *)

\* pixels per word: "x / 32", "x % 32", "31 - ..." all over the source
W == 32

\* BitBltOp
COPY == 0
AND == 1
OR == 2
XOR == 3

BitBltOp == {COPY, AND, OR, XOR}

\* a % n of JavaScript: the remainder takes the sign of the dividend
JsRem(a, n) == IF a >= 0 THEN a % n ELSE -((-a) % n)

\* Math.floor(a / n) for n > 0
Floor(a, n) == a \div n

\* Math.min
Min(a, b) == IF a <= b THEN a ELSE b

\* the value of a missing array element; W is no bit position
Undefined == {W}

\* ToInt32 as the bitwise operators apply it: undefined becomes 0
ToInt32(v) == IF v = Undefined THEN {} ELSE v

\* 1 << n: the shift count is taken modulo 32
Shl1(n) == {n % W}

BitAnd(a, b) == ToInt32(a) \cap ToInt32(b)
BitOr(a, b) == ToInt32(a) \cup ToInt32(b)
BitXor(a, b) == (ToInt32(a) \ ToInt32(b)) \cup (ToInt32(b) \ ToInt32(a))
BitNot(a) == (0..(W - 1)) \ ToInt32(a)

\* data[idx]
Get(data, idx) == IF idx \in DOMAIN data THEN data[idx] ELSE Undefined

\* data[idx] = v
Put(data, idx, v) == (idx :> v) @@ data

\* data.length: one more than the largest array index that holds a value
Length(data) ==
  LET idxs == {i \in DOMAIN data : i >= 0}
  IN IF idxs = {} THEN 0 ELSE (CHOOSE m \in idxs : \A i \in idxs : i <= m) + 1

----------------------------------------------------------------------------
(* Bitmaps.                                                                *)

createBitmap(width, height) ==
  LET intsPerRow == (width + W - 1) \div W
  IN [width |-> width, height |-> height, intsPerRow |-> intsPerRow,
      data |-> [i \in 0..(height * intsPerRow - 1) |-> {}]]

\* a variant of setPixel that counts the bits of a word from the least
\* significant one
setPixelLsbFirst(bitmap, x, y, value) ==
  IF x < 0 \/ x >= bitmap.width \/ y < 0 \/ y >= bitmap.height
  THEN bitmap
  ELSE LET intIndex == y * bitmap.intsPerRow + Floor(x, W)
           bitIndex == JsRem(x, W)
       IN IF value = 1
          THEN [bitmap EXCEPT !.data =
                  Put(@, intIndex, BitOr(Get(@, intIndex), Shl1(bitIndex)))]
          ELSE [bitmap EXCEPT !.data =
                  Put(@, intIndex, BitAnd(Get(@, intIndex), BitNot(Shl1(bitIndex))))]

setPixel(bitmap, x, y, value) ==
  IF x < 0 \/ x >= bitmap.width \/ y < 0 \/ y >= bitmap.height
  THEN bitmap
  ELSE LET intIndex == y * bitmap.intsPerRow + Floor(x, W)
           bitIndex == (W - 1) - JsRem(x, W)
       IN IF value = 1
          THEN [bitmap EXCEPT !.data =
                  Put(@, intIndex, BitOr(Get(@, intIndex), Shl1(bitIndex)))]
          ELSE [bitmap EXCEPT !.data =
                  Put(@, intIndex, BitAnd(Get(@, intIndex), BitNot(Shl1(bitIndex))))]

getPixel(bitmap, x, y) ==
  IF x < 0 \/ x >= bitmap.width \/ y < 0 \/ y >= bitmap.height
  THEN 0
  ELSE LET intIndex == y * bitmap.intsPerRow + Floor(x, W)
           bitIndex == (W - 1) - JsRem(x, W)
       IN IF BitAnd(Get(bitmap.data, intIndex), Shl1(bitIndex)) # {} THEN 1 ELSE 0

\* a variant of PixelOp whose XOR case computes OR
PixelOpXorAsOr(op, srcPixel, dstPixel) ==
  CASE op = AND -> IF srcPixel = 1 /\ dstPixel = 1 THEN 1 ELSE 0
    [] op = OR -> IF srcPixel = 1 \/ dstPixel = 1 THEN 1 ELSE 0
    [] op = XOR -> IF srcPixel = 1 \/ dstPixel = 1 THEN 1 ELSE 0
    [] OTHER -> srcPixel

\* the switch on op over two pixel values (0 or 1)
PixelOp(op, srcPixel, dstPixel) ==
  CASE op = AND -> IF srcPixel = 1 /\ dstPixel = 1 THEN 1 ELSE 0
    [] op = OR -> IF srcPixel = 1 \/ dstPixel = 1 THEN 1 ELSE 0
    [] op = XOR -> IF srcPixel # dstPixel THEN 1 ELSE 0
    [] OTHER -> srcPixel

\* the switch on op over two words
WordOp(op, srcInt, dstInt) ==
  CASE op = AND -> BitAnd(srcInt, dstInt)
    [] op = OR -> BitOr(srcInt, dstInt)
    [] op = XOR -> BitXor(srcInt, dstInt)
    [] OTHER -> srcInt

----------------------------------------------------------------------------
(* bitblt: the per-pixel transfer.  h maps a bitmap's name to the bitmap;  *)
(* c.dst and c.src are names, so c.src = c.dst is the aliased case.        *)

\* the clip to the bounds of both bitmaps
ActualWidth(h, c) ==
  Min(Min(c.srcX + c.width, h[c.src].width) - c.srcX,
      Min(c.dstX + c.width, h[c.dst].width) - c.dstX)

ActualHeight(h, c) ==
  Min(Min(c.srcY + c.height, h[c.src].height) - c.srcY,
      Min(c.dstY + c.height, h[c.dst].height) - c.dstY)

\* a variant of BitbltPixel with the two bitmaps of setPixel exchanged: the
\* result is written to the source
BitbltPixelIntoSource(h, c, x, y) ==
  LET srcPixel == getPixel(h[c.src], c.srcX + x, c.srcY + y)
      dstPixel == getPixel(h[c.dst], c.dstX + x, c.dstY + y)
      resultPixel == PixelOp(c.op, srcPixel, dstPixel)
  IN [h EXCEPT ![c.src] = setPixel(@, c.srcX + x, c.srcY + y, resultPixel)]

\* the body of the inner loop
BitbltPixel(h, c, x, y) ==
  LET srcPixel == getPixel(h[c.src], c.srcX + x, c.srcY + y)
      dstPixel == getPixel(h[c.dst], c.dstX + x, c.dstY + y)
      resultPixel == PixelOp(c.op, srcPixel, dstPixel)
  IN [h EXCEPT ![c.dst] = setPixel(@, c.dstX + x, c.dstY + y, resultPixel)]

\* for (y = 0; y < actualHeight; y++) for (x = 0; x < actualWidth; x++):
\* the number of times the body runs, and the body's k-th run (k from 0)
RunCount(actualWidth, actualHeight) ==
  IF actualWidth > 0 /\ actualHeight > 0 THEN actualWidth * actualHeight ELSE 0

\* a variant of BitbltStep that takes the rows bottom-to-top
BitbltStepBottomUp(h, c, actualWidth, k) ==
  BitbltPixel(h, c, k % actualWidth, ActualHeight(h, c) - 1 - (k \div actualWidth))

BitbltStep(h, c, actualWidth, k) ==
  BitbltPixel(h, c, k % actualWidth, k \div actualWidth)

RECURSIVE BitbltLoop(_, _, _, _, _)
\* runs lo .. hi-1 of the body, in order.  The range is halved to keep the
\* evaluation shallow, and the test on the first half's result (always true:
\* a blit neither adds nor removes a bitmap) has it evaluated before the
\* second half starts; the order of the runs is the loop's.
BitbltLoop(h, c, actualWidth, lo, hi) ==
  IF hi <= lo THEN h
  ELSE IF hi = lo + 1 THEN BitbltStep(h, c, actualWidth, lo)
  ELSE LET mid == (lo + hi) \div 2
           first == BitbltLoop(h, c, actualWidth, lo, mid)
       IN IF DOMAIN first = DOMAIN h
          THEN BitbltLoop(first, c, actualWidth, mid, hi)
          ELSE first

bitblt(h, c) ==
  IF c.width <= 0 \/ c.height <= 0
  THEN h
  ELSE BitbltLoop(h, c, ActualWidth(h, c), 0,
                  RunCount(ActualWidth(h, c), ActualHeight(h, c)))

----------------------------------------------------------------------------
(* bitbltAligned: the per-word transfer.                                   *)

\* the body of the inner loop: one word of row y
AlignedWord(h, c, y, i) ==
  LET srcRowIndex == (c.srcY + y) * h[c.src].intsPerRow + (c.srcX \div W)
      dstRowIndex == (c.dstY + y) * h[c.dst].intsPerRow + (c.dstX \div W)
      srcInt == Get(h[c.src].data, srcRowIndex + i)
      dstInt == Get(h[c.dst].data, dstRowIndex + i)
  IN [h EXCEPT ![c.dst].data = Put(@, dstRowIndex + i, WordOp(c.op, srcInt, dstInt))]

\* for (y = 0; y < height; y++) for (i = 0; i < intsPerRow; i++):
\* the body's k-th run (k from 0)
\* a variant of AlignedStep that takes the rows bottom-to-top
AlignedStepBottomUp(h, c, intsPerRow, k) ==
  AlignedWord(h, c, c.height - 1 - (k \div intsPerRow), k % intsPerRow)

AlignedStep(h, c, intsPerRow, k) ==
  AlignedWord(h, c, k \div intsPerRow, k % intsPerRow)

RECURSIVE AlignedLoop(_, _, _, _, _)
\* runs lo .. hi-1 of the body, in order
AlignedLoop(h, c, intsPerRow, lo, hi) ==
  IF hi <= lo THEN h
  ELSE IF hi = lo + 1 THEN AlignedStep(h, c, intsPerRow, lo)
  ELSE LET mid == (lo + hi) \div 2
           first == AlignedLoop(h, c, intsPerRow, lo, mid)
       IN IF DOMAIN first = DOMAIN h
          THEN AlignedLoop(first, c, intsPerRow, mid, hi)
          ELSE first

\* dstX % 32 !== 0 || srcX % 32 !== 0 || width % 32 !== 0
Unaligned(c) ==
  JsRem(c.dstX, W) # 0 \/ JsRem(c.srcX, W) # 0 \/ JsRem(c.width, W) # 0

bitbltAligned(h, c) ==
  IF Unaligned(c)
  THEN bitblt(h, c)
  ELSE AlignedLoop(h, c, c.width \div W, 0, RunCount(c.width \div W, c.height))

----------------------------------------------------------------------------
(* fillRect and fillRectAligned.                                           *)

\* the number of runs of "for (v = start; v < end && v < limit; v++)"
Runs(start, end, limit) ==
  IF Min(end, limit) > start THEN Min(end, limit) - start ELSE 0

\* fillRect: for (row = y; row < y + height && row < bitmap.height; row++)
\* for (col = x; col < x + width && col < bitmap.width; col++): the body's
\* k-th run (k from 0) of cols runs per row
FillStep(bitmap, x, y, value, cols, k) ==
  setPixel(bitmap, x + (k % cols), y + (k \div cols), value)

RECURSIVE FillLoop(_, _, _, _, _, _, _)
\* runs lo .. hi-1 of the body, in order
FillLoop(bitmap, x, y, value, cols, lo, hi) ==
  IF hi <= lo THEN bitmap
  ELSE IF hi = lo + 1 THEN FillStep(bitmap, x, y, value, cols, lo)
  ELSE LET mid == (lo + hi) \div 2
           first == FillLoop(bitmap, x, y, value, cols, lo, mid)
       IN IF first.width = bitmap.width
          THEN FillLoop(first, x, y, value, cols, mid, hi)
          ELSE first

\* a variant of fillRect that takes width and height for the right and
\* bottom edge of the rectangle
fillRectToEdge(bitmap, x, y, width, height, value) ==
  LET rows == Runs(y, height, bitmap.height)
      cols == Runs(x, width, bitmap.width)
  IN FillLoop(bitmap, x, y, value, cols, 0, RunCount(cols, rows))

fillRect(bitmap, x, y, width, height, value) ==
  LET rows == Runs(y, y + height, bitmap.height)
      cols == Runs(x, x + width, bitmap.width)
  IN FillLoop(bitmap, x, y, value, cols, 0, RunCount(cols, rows))

\* 0xffffffff
AllOnes == 0..(W - 1)

\* fillRectAligned on aligned arguments:
\* for (row = 0; row < height && startRow + row < bitmap.height; row++)
\* for (i = 0; i < intsPerRow && startIntX + i < bitmap.intsPerRow; i++):
\* the body's k-th run (k from 0) of ints runs per row
FillAlignedStep(bitmap, x, y, value, ints, k) ==
  LET startRow == y
      startIntX == x \div W
      fillValue == IF value = 1 THEN AllOnes ELSE {}
      rowIndex == (startRow + (k \div ints)) * bitmap.intsPerRow + startIntX
  IN [bitmap EXCEPT !.data = Put(@, rowIndex + (k % ints), fillValue)]

RECURSIVE FillAlignedLoop(_, _, _, _, _, _, _)
\* runs lo .. hi-1 of the body, in order
FillAlignedLoop(bitmap, x, y, value, ints, lo, hi) ==
  IF hi <= lo THEN bitmap
  ELSE IF hi = lo + 1 THEN FillAlignedStep(bitmap, x, y, value, ints, lo)
  ELSE LET mid == (lo + hi) \div 2
           first == FillAlignedLoop(bitmap, x, y, value, ints, lo, mid)
       IN IF first.width = bitmap.width
          THEN FillAlignedLoop(first, x, y, value, ints, mid, hi)
          ELSE first

fillRectAligned(bitmap, x, y, width, height, value) ==
  IF JsRem(x, W) # 0 \/ JsRem(width, W) # 0
  THEN fillRect(bitmap, x, y, width, height, value)
  ELSE LET rows == Runs(0, height, bitmap.height - y)
           ints == Runs(0, width \div W, bitmap.intsPerRow - (x \div W))
       IN FillAlignedLoop(bitmap, x, y, value, ints, 0, RunCount(ints, rows))

----------------------------------------------------------------------------
(* The JIT compiler.  A generated routine is the record of the constants   *)
(* burned into its text; running it interprets the generated loops.        *)

\* a loop "for (v = start; v !== end; v += step)" reaches its end
LoopEnds(start, end, step) == IF step = 1 THEN start <= end ELSE start >= end

\* the generated routine returns
Terminates(f) ==
  /\ LoopEnds(f.yStart, f.yEnd, f.yStep)
  /\ (f.yStart = f.yEnd \/ LoopEnds(f.xStart, f.xEnd, f.xStep))

\* a variant of generateBitBltFunction that orders the columns only: the
\* rows always run top-to-bottom
generateRowsForwardFunction(h, c) ==
  LET actualWidth == ActualWidth(h, c)
      actualHeight == ActualHeight(h, c)
      sameBuffer == c.src = c.dst
      overlapHorizontal ==
        sameBuffer /\ ((c.srcX < c.dstX /\ c.srcX + actualWidth > c.dstX)
                       \/ (c.dstX < c.srcX /\ c.dstX + actualWidth > c.srcX))
      xRev == overlapHorizontal /\ c.srcX < c.dstX
  IN [xStart |-> IF xRev THEN actualWidth - 1 ELSE 0,
      xEnd |-> IF xRev THEN -1 ELSE actualWidth,
      xStep |-> IF xRev THEN -1 ELSE 1,
      yStart |-> 0, yEnd |-> actualHeight, yStep |-> 1,
      srcX |-> c.srcX, srcY |-> c.srcY, dstX |-> c.dstX, dstY |-> c.dstY,
      op |-> c.op]

\* a variant of generateBitBltFunction that does not test whether the
\* ranges intersect: in place it runs backwards whenever the source starts
\* before the destination
generateByOrderFunction(h, c) ==
  LET actualWidth == ActualWidth(h, c)
      actualHeight == ActualHeight(h, c)
      sameBuffer == c.src = c.dst
      xRev == sameBuffer /\ c.srcX < c.dstX
      yRev == sameBuffer /\ c.srcY < c.dstY
  IN [xStart |-> IF xRev THEN actualWidth - 1 ELSE 0,
      xEnd |-> IF xRev THEN -1 ELSE actualWidth,
      xStep |-> IF xRev THEN -1 ELSE 1,
      yStart |-> IF yRev THEN actualHeight - 1 ELSE 0,
      yEnd |-> IF yRev THEN -1 ELSE actualHeight,
      yStep |-> IF yRev THEN -1 ELSE 1,
      srcX |-> c.srcX, srcY |-> c.srcY, dstX |-> c.dstX, dstY |-> c.dstY,
      op |-> c.op]

\* a variant of generateBitBltFunction without the overlap test: both loops
\* always run forward
generateForwardFunction(h, c) ==
  [xStart |-> 0, xEnd |-> ActualWidth(h, c), xStep |-> 1,
   yStart |-> 0, yEnd |-> ActualHeight(h, c), yStep |-> 1,
   srcX |-> c.srcX, srcY |-> c.srcY, dstX |-> c.dstX, dstY |-> c.dstY,
   op |-> c.op]

generateBitBltFunction(h, c) ==
  LET actualWidth == ActualWidth(h, c)
      actualHeight == ActualHeight(h, c)
      sameBuffer == c.src = c.dst
      overlapHorizontal ==
        sameBuffer /\ ((c.srcX < c.dstX /\ c.srcX + actualWidth > c.dstX)
                       \/ (c.dstX < c.srcX /\ c.dstX + actualWidth > c.srcX))
      overlapVertical ==
        sameBuffer /\ ((c.srcY < c.dstY /\ c.srcY + actualHeight > c.dstY)
                       \/ (c.dstY < c.srcY /\ c.dstY + actualHeight > c.srcY))
      xRev == overlapHorizontal /\ c.srcX < c.dstX
      yRev == overlapVertical /\ c.srcY < c.dstY
  IN [xStart |-> IF xRev THEN actualWidth - 1 ELSE 0,
      xEnd |-> IF xRev THEN -1 ELSE actualWidth,
      xStep |-> IF xRev THEN -1 ELSE 1,
      yStart |-> IF yRev THEN actualHeight - 1 ELSE 0,
      yEnd |-> IF yRev THEN -1 ELSE actualHeight,
      yStep |-> IF yRev THEN -1 ELSE 1,
      srcX |-> c.srcX, srcY |-> c.srcY, dstX |-> c.dstX, dstY |-> c.dstY,
      op |-> c.op]

\* the body of the generated inner loop
JitPixel(h, f, src, dst, x, y) ==
  LET srcPixelX == f.srcX + x
      srcPixelY == f.srcY + y
      dstPixelX == f.dstX + x
      dstPixelY == f.dstY + y
      srcIntIndex == srcPixelY * h[src].intsPerRow + Floor(srcPixelX, W)
      dstIntIndex == dstPixelY * h[dst].intsPerRow + Floor(dstPixelX, W)
      srcBitIndex == (W - 1) - JsRem(srcPixelX, W)
      dstBitIndex == (W - 1) - JsRem(dstPixelX, W)
      srcPixel == IF BitAnd(Get(h[src].data, srcIntIndex), Shl1(srcBitIndex)) # {}
                  THEN 1 ELSE 0
      dstPixel == IF BitAnd(Get(h[dst].data, dstIntIndex), Shl1(dstBitIndex)) # {}
                  THEN 1 ELSE 0
      resultPixel == PixelOp(f.op, srcPixel, dstPixel)
  IN IF resultPixel = 1
     THEN [h EXCEPT ![dst].data =
             Put(@, dstIntIndex, BitOr(Get(@, dstIntIndex), Shl1(dstBitIndex)))]
     ELSE [h EXCEPT ![dst].data =
             Put(@, dstIntIndex, BitAnd(Get(@, dstIntIndex), BitNot(Shl1(dstBitIndex))))]

\* for (y = yStart; y !== yEnd; y += yStep) for (x = xStart; x !== xEnd; x += xStep)
\* in a routine that returns: the number of runs of each loop, and the
\* coordinates of the body's k-th run (k from 0)
XCount(f) == IF f.xStep = 1 THEN f.xEnd - f.xStart ELSE f.xStart - f.xEnd
YCount(f) == IF f.yStep = 1 THEN f.yEnd - f.yStart ELSE f.yStart - f.yEnd
XOfRun(f, k) == f.xStart + f.xStep * (k % XCount(f))
YOfRun(f, k) == f.yStart + f.yStep * (k \div XCount(f))

JitStep(h, f, src, dst, k) == JitPixel(h, f, src, dst, XOfRun(f, k), YOfRun(f, k))

RECURSIVE JitLoop(_, _, _, _, _, _)
\* runs lo .. hi-1 of the body, in order
JitLoop(h, f, src, dst, lo, hi) ==
  IF hi <= lo THEN h
  ELSE IF hi = lo + 1 THEN JitStep(h, f, src, dst, lo)
  ELSE LET mid == (lo + hi) \div 2
           first == JitLoop(h, f, src, dst, lo, mid)
       IN IF DOMAIN first = DOMAIN h
          THEN JitLoop(first, f, src, dst, mid, hi)
          ELSE first

\* bitBltFunction(src, dst), for a routine that returns
RunBitBltFunction(h, f, src, dst) ==
  JitLoop(h, f, src, dst, 0, RunCount(XCount(f), YCount(f)))

\* jitBitBlt returns
jitBitBltReturns(h, c) ==
  c.width <= 0 \/ c.height <= 0 \/ Terminates(generateBitBltFunction(h, c))

\* the bitmaps when jitBitBlt has returned
jitBitBlt(h, c) ==
  IF c.width <= 0 \/ c.height <= 0
  THEN h
  ELSE RunBitBltFunction(h, generateBitBltFunction(h, c), c.src, c.dst)

\* the constants jitBitBltAligned burns into its routine (aligned arguments)
generateAlignedFunction(h, c) ==
  LET srcStartRow == c.srcY
      dstStartRow == c.dstY
      intsPerRow == c.width \div W
      srcStartIntX == c.srcX \div W
      dstStartIntX == c.dstX \div W
      sameBuffer == c.src = c.dst
      overlapHorizontal ==
        sameBuffer /\ ((srcStartIntX < dstStartIntX
                          /\ srcStartIntX + intsPerRow > dstStartIntX)
                       \/ (dstStartIntX < srcStartIntX
                             /\ dstStartIntX + intsPerRow > srcStartIntX))
      overlapVertical ==
        sameBuffer /\ ((srcStartRow < dstStartRow
                          /\ srcStartRow + c.height > dstStartRow)
                       \/ (dstStartRow < srcStartRow
                             /\ dstStartRow + c.height > srcStartRow))
      xRev == overlapHorizontal /\ srcStartIntX < dstStartIntX
      yRev == overlapVertical /\ srcStartRow < dstStartRow
  IN [xStart |-> IF xRev THEN intsPerRow - 1 ELSE 0,
      xEnd |-> IF xRev THEN -1 ELSE intsPerRow,
      xStep |-> IF xRev THEN -1 ELSE 1,
      yStart |-> IF yRev THEN c.height - 1 ELSE 0,
      yEnd |-> IF yRev THEN -1 ELSE c.height,
      yStep |-> IF yRev THEN -1 ELSE 1,
      srcX |-> srcStartIntX, srcY |-> srcStartRow,
      dstX |-> dstStartIntX, dstY |-> dstStartRow,
      op |-> c.op]

\* the body of the generated inner loop of the aligned routine
JitWord(h, f, src, dst, y, i) ==
  LET srcRowIndex == (f.srcY + y) * h[src].intsPerRow + f.srcX
      dstRowIndex == (f.dstY + y) * h[dst].intsPerRow + f.dstX
      srcInt == Get(h[src].data, srcRowIndex + i)
      dstInt == Get(h[dst].data, dstRowIndex + i)
  IN [h EXCEPT ![dst].data = Put(@, dstRowIndex + i, WordOp(f.op, srcInt, dstInt))]

\* for (y = yStart; y !== yEnd; y += yStep) for (i = iStart; i !== iEnd; i += iStep):
\* the body's k-th run (k from 0)
JitAlignedStep(h, f, src, dst, k) ==
  JitWord(h, f, src, dst, YOfRun(f, k), XOfRun(f, k))

RECURSIVE JitAlignedLoop(_, _, _, _, _, _)
\* runs lo .. hi-1 of the body, in order
JitAlignedLoop(h, f, src, dst, lo, hi) ==
  IF hi <= lo THEN h
  ELSE IF hi = lo + 1 THEN JitAlignedStep(h, f, src, dst, lo)
  ELSE LET mid == (lo + hi) \div 2
           first == JitAlignedLoop(h, f, src, dst, lo, mid)
       IN IF DOMAIN first = DOMAIN h
          THEN JitAlignedLoop(first, f, src, dst, mid, hi)
          ELSE first

\* jitBitBltAligned returns
jitBitBltAlignedReturns(h, c) ==
  IF Unaligned(c)
  THEN jitBitBltReturns(h, c)
  ELSE Terminates(generateAlignedFunction(h, c))

\* the bitmaps when jitBitBltAligned has returned
jitBitBltAligned(h, c) ==
  IF Unaligned(c)
  THEN jitBitBlt(h, c)
  ELSE LET f == generateAlignedFunction(h, c)
       IN JitAlignedLoop(h, f, c.src, c.dst, 0, RunCount(XCount(f), YCount(f)))

----------------------------------------------------------------------------
(* JitExecutor: the generators, the code cache and the default generator.  *)
(* A Map is a function from the keys it holds to their values.             *)

\* CodeGeneratorType
JAVASCRIPT == "javascript"
WASM == "wasm"
CodeGeneratorType == {JAVASCRIPT, WASM}

\* the value of an optional argument that is not given (generatorType = null)
Null == "null"

\* the empty string
Empty == ""

\* "generatorType ||" and "if (generatorType)" take the value for not given
\* when it is falsy: null and the empty string alike
Falsy(v) == v \in {Null, Empty}

\* names every object literal inherits from Object.prototype
ObjectPrototypeNames == {"constructor", "toString", "hasOwnProperty"}

\* this.generators[name] and this.codeCache[name]: an own property holds
\* the generator (the Map), an inherited name yields a function of
\* Object.prototype, which is truthy, and any other name yields undefined
PropertyOf(name) ==
  IF name \in CodeGeneratorType THEN "own"
  ELSE IF name \in ObjectPrototypeNames THEN "inherited"
  ELSE "undefined"

\* generatorType || this.defaultGenerator
GeneratorName(generatorType, default) ==
  IF Falsy(generatorType) THEN default ELSE generatorType

\* _isAligned(dstX, srcX, width)
IsAligned(dstX, srcX, width) ==
  JsRem(dstX, W) = 0 /\ JsRem(srcX, W) = 0 /\ JsRem(width, W) = 0

\* generator.generateCode(params): the routine for the call, specialised on
\* the alignment flag of params, with the constants of the call burned in
generateCode(h, c) ==
  IF IsAligned(c.dstX, c.srcX, c.width)
  THEN [aligned |-> TRUE, f |-> generateAlignedFunction(h, c)]
  ELSE [aligned |-> FALSE, f |-> generateBitBltFunction(h, c)]

\* negative sizes clamp to 0
Clamp(n) == IF n < 0 THEN 0 ELSE n

\* generator.getCacheKey(params): the signature of the call's plan, built
\* from the clipped dimensions, the two directions, the alignment flag and
\* the operator, and from no absolute coordinate
getCacheKey(h, c) ==
  LET code == generateCode(h, c)
      degenerate == c.width <= 0 \/ c.height <= 0
  IN [aligned |-> code.aligned,
      rectWidth |-> IF degenerate THEN 0 ELSE Clamp(ActualWidth(h, c)),
      rectHeight |-> IF degenerate THEN 0 ELSE Clamp(ActualHeight(h, c)),
      xDirection |-> code.f.xStep,
      yDirection |-> code.f.yStep,
      op |-> c.op]

\* generator.executeCode(generatedCode, dst, src) returns
executeCodeReturns(code) == Terminates(code.f)

\* the bitmaps when generator.executeCode(generatedCode, dst, src) has returned
executeCode(h, code, dst, src) ==
  IF code.aligned
  THEN JitAlignedLoop(h, code.f, src, dst, 0, RunCount(XCount(code.f), YCount(code.f)))
  ELSE RunBitBltFunction(h, code.f, src, dst)

\* map.get(key) finds a value
CacheHas(map, key) == key \in DOMAIN map

\* map.get(key)
CacheGet(map, key) == map[key]

\* map.set(key, value)
CacheSet(map, key, value) == (key :> value) @@ map

\* new Map(), and a Map after clear()
EmptyMap == <<>>

\* clearCache(generatorType) on the caches, when it does not throw
clearCache(cache, generatorType) ==
  IF ~Falsy(generatorType)
  THEN [cache EXCEPT ![generatorType] = EmptyMap]
  ELSE [type \in DOMAIN cache |-> EmptyMap]

----------------------------------------------------------------------------
(* The bitmaps of a run and the calls made on them.                        *)

\* the test patterns the bitmaps are painted with before a call
Patterns == {"checker", "blocks", "bars"}

Pattern(p, x, y) ==
  CASE p = "checker" -> (x + y) % 2 = 0
    [] p = "blocks" -> (Floor(x, W) + y) % 2 = 0
    [] OTHER -> (x + 2 * y) % 3 = 0 /\ Floor(x, W) # 1

\* createBitmap followed by setPixel(bitmap, x, y, 1) on the pattern's pixels
Painted(width, height, p) ==
  LET bitmap == createBitmap(width, height)
  IN [bitmap EXCEPT !.data =
        [idx \in DOMAIN @ |->
           {b \in 0..(W - 1) :
              LET x == W * (idx % bitmap.intsPerRow) + (W - 1) - b
              IN x < width /\ Pattern(p, x, idx \div bitmap.intsPerRow)}]]

NoCall ==
  [fn |-> "none", dst |-> "A", src |-> "A", dstX |-> 0, dstY |-> 0,
   width |-> 0, height |-> 0, srcX |-> 0, srcY |-> 0, op |-> COPY]

\* the calls fn(A, dstX, dstY, width, height, src, srcX, srcY, op)
Calls(fn, srcs, dxs, sxs, ws, dys, sys, hs, ops) ==
  {[fn |-> fn, dst |-> "A", src |-> s, dstX |-> dx, dstY |-> dy,
    width |-> w, height |-> ht, srcX |-> sx, srcY |-> sy, op |-> o] :
     s \in srcs, dx \in dxs, sx \in sxs, w \in ws,
     dy \in dys, sy \in sys, ht \in hs, o \in ops}

\* small rectangles around the boundary between the first two words
PixelCalls(fn) ==
  Calls(fn, {"A", "B"}, {W - 1, W, W + 1}, {W - 1, W, W + 1}, {1, 2, 3},
        {0, 1}, {0, 1}, {1, 2}, BitBltOp)

\* rectangles that reach past an edge of a bitmap, or start before it
ClipCalls(fn) ==
  Calls(fn, {"A", "B"}, {-1, 0, AWidth - 2}, {-1, 0, BWidth - 2, BWidth + 1}, {3},
        {-1, 0, AHeight - 1}, {-1, 0, BHeight - 1}, {2}, {COPY, XOR})

\* empty and negative sizes
DegenerateCalls(fn) ==
  Calls(fn, {"A", "B"}, {0, 1}, {0, W}, {-W, -1, 0, 1, W},
        {0}, {0, 1}, {-1, 0, 1}, {COPY, XOR})

\* whole words
AlignedCalls(fn) ==
  Calls(fn, {"A", "B"}, {0, W, 2 * W}, {0, W, 2 * W}, {W, 2 * W},
        {0, 1}, {0, 1}, {1, 2}, BitBltOp)

\* the cache key of an execute that has computed none
NoKey ==
  [aligned |-> FALSE, rectWidth |-> -1, rectHeight |-> -1,
   xDirection |-> 0, yDirection |-> 0, op |-> COPY]

\* an execute call that has not been made yet
NewTask ==
  [pc |-> "new", c |-> NoCall, type |-> Null, key |-> NoKey, code |-> Null,
   stored |-> Null, hit |-> FALSE, error |-> "none"]

\* the history of one generator's cache since it was last cleared: the
\* number of generateCode calls per key, the keys looked up, and the keys
\* for which an execute has completed
NoLog == [generated |-> <<>>, started |-> {}, completed |-> {}]

\* new JitExecutor(), with no execute call made
constructor ==
  /\ codeCache = [type \in CodeGeneratorType |-> EmptyMap]
  /\ defaultGenerator = JAVASCRIPT
  /\ tasks = [t \in 1..MaxTasks |-> NewTask]
  /\ log = [type \in CodeGeneratorType |-> NoLog]

Init ==
  /\ constructor
  /\ \E pa \in Patterns, pb \in {"checker", "blocks"} :
       heap = [n \in {"A", "B"} |->
                 IF n = "A" THEN Painted(AWidth, AHeight, pa)
                 ELSE Painted(BWidth, BHeight, pb)]
  /\ pre = heap
  /\ call = NoCall
  /\ status = "ready"

\* a call of bitblt
Bitblt ==
  /\ status = "ready"
  /\ \E c \in PixelCalls("bitblt") \cup ClipCalls("bitblt") \cup DegenerateCalls("bitblt") :
       /\ call' = c
       /\ heap' = bitblt(heap, c)
  /\ status' = "returned"
  /\ pre' = heap
  /\ UNCHANGED execVars

\* a call of bitbltAligned
BitbltAligned ==
  /\ status = "ready"
  /\ \E c \in AlignedCalls("bitbltAligned") \cup DegenerateCalls("bitbltAligned") :
       /\ call' = c
       /\ heap' = bitbltAligned(heap, c)
  /\ status' = "returned"
  /\ pre' = heap
  /\ UNCHANGED execVars

\* a call of jitBitBlt.  A routine whose loops never reach their end never
\* returns: the caller is hung and observes no bitmaps after the call, so heap
\* keeps the bitmaps of before the call there.
JitBitBlt ==
  /\ status = "ready"
  /\ \E c \in PixelCalls("jitBitBlt") \cup ClipCalls("jitBitBlt")
                \cup DegenerateCalls("jitBitBlt") :
       /\ call' = c
       /\ IF jitBitBltReturns(heap, c)
          THEN heap' = jitBitBlt(heap, c) /\ status' = "returned"
          ELSE heap' = heap /\ status' = "hung"
  /\ pre' = heap
  /\ UNCHANGED execVars

\* a call of jitBitBltAligned
JitBitBltAligned ==
  /\ status = "ready"
  /\ \E c \in AlignedCalls("jitBitBltAligned") \cup DegenerateCalls("jitBitBltAligned") :
       /\ call' = c
       /\ IF jitBitBltAlignedReturns(heap, c)
          THEN heap' = jitBitBltAligned(heap, c) /\ status' = "returned"
          ELSE heap' = heap /\ status' = "hung"
  /\ pre' = heap
  /\ UNCHANGED execVars

Next == Bitblt \/ BitbltAligned \/ JitBitBlt \/ JitBitBltAligned

Spec == Init /\ [][Next]_vars

----------------------------------------------------------------------------
(* The executor's runs.  execute is an async function: it runs up to its   *)
(* await of generateCode in the caller's turn and resumes in a later turn, *)
(* so calls of execute, clearCache and setDefaultGenerator interleave with *)
(* executes that await their generated code.                               *)

\* jitExecutor.execute(A, dstX, 0, width, 1, B, srcX, 0, COPY, generatorType)
ExecCall(dstX, srcX, width, generatorType) ==
  [fn |-> "execute", dst |-> "A", src |-> "B", dstX |-> dstX, dstY |-> 0,
   width |-> width, height |-> 1, srcX |-> srcX, srcY |-> 0, op |-> COPY,
   generatorType |-> generatorType]

\* two calls of one shape at different coordinates, an empty one, and one
\* that names a generator that is not registered
ExecCalls ==
  {ExecCall(0, 0, 2, Null), ExecCall(W + 1, 2, 2, Null), ExecCall(0, 0, 0, Null),
   ExecCall(0, 0, 2, "native")}

\* one more generateCode call for the key
LogGenerated(l, key) ==
  [l EXCEPT !.generated = (key :> (IF key \in DOMAIN @ THEN @[key] + 1 ELSE 1)) @@ @]

LogStarted(l, key) == [l EXCEPT !.started = @ \cup {key}]

LogCompleted(l, key) == [l EXCEPT !.completed = @ \cup {key}]

\* generator.executeCode(generatedCode, dst, src) in execute call t, whose
\* record is task once the step is done; l is the log when the routine
\* starts
RunCode(t, task, l) ==
  /\ UNCHANGED <<pre, call>>
  /\ IF executeCodeReturns(task.code)
     THEN /\ heap' = executeCode(heap, task.code, task.c.dst, task.c.src)
          /\ tasks' = [tasks EXCEPT ![t] = [task EXCEPT !.pc = "done"]]
          /\ log' = [l EXCEPT ![task.type] = LogCompleted(@, task.key)]
          /\ status' = "ready"
     ELSE /\ heap' = heap
          /\ tasks' = [tasks EXCEPT ![t] = [task EXCEPT !.pc = "hung"]]
          /\ log' = l
          /\ status' = "hung"

\* a variant of Execute that stores the result of generateCode without
\* awaiting it: the cache holds the entry while the code is still generated
ExecuteCachesPromise(t) ==
  /\ status # "hung"
  /\ tasks[t].pc = "new"
  /\ IF t = 1 THEN TRUE ELSE tasks[t - 1].pc # "new"
  /\ \E c \in ExecCalls :
       LET type == GeneratorName(c.generatorType, defaultGenerator)
           task == [tasks[t] EXCEPT !.c = c, !.type = type]
       IN CASE PropertyOf(type) = "undefined" ->
                 \* throw new Error(`Unknown code generator type: ...`)
                 /\ tasks' = [tasks EXCEPT ![t] =
                                [task EXCEPT !.pc = "threw", !.error = "Error"]]
                 /\ UNCHANGED <<heap, pre, call, status, codeCache, defaultGenerator, log>>
            [] PropertyOf(type) = "inherited" ->
                 \* generator.getCacheKey is not a function
                 /\ tasks' = [tasks EXCEPT ![t] =
                                [task EXCEPT !.pc = "threw", !.error = "TypeError"]]
                 /\ UNCHANGED <<heap, pre, call, status, codeCache, defaultGenerator, log>>
            [] OTHER ->
                 LET cacheKey == getCacheKey(heap, c)
                     hit == CacheHas(codeCache[type], cacheKey)
                     looked == [task EXCEPT !.key = cacheKey, !.hit = hit]
                     started == [log EXCEPT ![type] = LogStarted(@, cacheKey)]
                 IN IF hit
                    THEN /\ RunCode(t, [looked EXCEPT
                                          !.code = CacheGet(codeCache[type], cacheKey)],
                                    started)
                         /\ UNCHANGED <<codeCache, defaultGenerator>>
                    ELSE /\ tasks' = [tasks EXCEPT ![t] =
                                        [looked EXCEPT !.pc = "awaiting",
                                                       !.code = generateCode(heap, c)]]
                         /\ log' = [started EXCEPT ![type] = LogGenerated(@, cacheKey)]
                         /\ codeCache' = [codeCache EXCEPT ![type] =
                                            CacheSet(@, cacheKey, generateCode(heap, c))]
                         /\ UNCHANGED <<heap, pre, call, status, defaultGenerator>>

\* execute call t up to its first await, or to its end when there is none
Execute(t) ==
  /\ status # "hung"
  /\ tasks[t].pc = "new"
  /\ IF t = 1 THEN TRUE ELSE tasks[t - 1].pc # "new"
  /\ \E c \in ExecCalls :
       LET type == GeneratorName(c.generatorType, defaultGenerator)
           task == [tasks[t] EXCEPT !.c = c, !.type = type]
       IN CASE PropertyOf(type) = "undefined" ->
                 \* throw new Error(`Unknown code generator type: ...`)
                 /\ tasks' = [tasks EXCEPT ![t] =
                                [task EXCEPT !.pc = "threw", !.error = "Error"]]
                 /\ UNCHANGED <<heap, pre, call, status, codeCache, defaultGenerator, log>>
            [] PropertyOf(type) = "inherited" ->
                 \* generator.getCacheKey is not a function
                 /\ tasks' = [tasks EXCEPT ![t] =
                                [task EXCEPT !.pc = "threw", !.error = "TypeError"]]
                 /\ UNCHANGED <<heap, pre, call, status, codeCache, defaultGenerator, log>>
            [] OTHER ->
                 LET cacheKey == getCacheKey(heap, c)
                     hit == CacheHas(codeCache[type], cacheKey)
                     looked == [task EXCEPT !.key = cacheKey, !.hit = hit]
                     started == [log EXCEPT ![type] = LogStarted(@, cacheKey)]
                 IN IF hit
                    THEN /\ RunCode(t, [looked EXCEPT
                                          !.code = CacheGet(codeCache[type], cacheKey)],
                                    started)
                         /\ UNCHANGED <<codeCache, defaultGenerator>>
                    ELSE /\ tasks' = [tasks EXCEPT ![t] =
                                        [looked EXCEPT !.pc = "awaiting",
                                                       !.code = generateCode(heap, c)]]
                         /\ log' = [started EXCEPT ![type] = LogGenerated(@, cacheKey)]
                         /\ UNCHANGED <<heap, pre, call, status, codeCache, defaultGenerator>>

\* execute call t from its await on: the generated code is stored and run.
\* The cache is named anew, this.codeCache[generatorType ||
\* this.defaultGenerator], with the default generator of this turn; a name
\* that holds no Map has no set method, and the call fails with a TypeError
Resume(t) ==
  /\ status # "hung"
  /\ tasks[t].pc = "awaiting"
  /\ LET name == GeneratorName(tasks[t].c.generatorType, defaultGenerator)
     IN IF PropertyOf(name) = "own"
        THEN /\ codeCache' = [codeCache EXCEPT ![name] =
                                CacheSet(@, tasks[t].key, tasks[t].code)]
             /\ RunCode(t, [tasks[t] EXCEPT !.stored = name], log)
        ELSE /\ tasks' = [tasks EXCEPT ![t] =
                            [@ EXCEPT !.pc = "threw", !.error = "TypeError"]]
             /\ UNCHANGED <<heap, pre, call, status, codeCache, log>>
  /\ UNCHANGED defaultGenerator

\* clearCache(generatorType) throws: the name has no Map, or what it has is
\* no Map
clearCacheThrows(generatorType) ==
  ~Falsy(generatorType) /\ PropertyOf(generatorType) # "own"

\* an execute call of the run is still to be made or to be resumed: the
\* calls of clearCache and setDefaultGenerator of a run are made before its
\* last execute has finished
Running == \E t \in 1..MaxTasks : tasks[t].pc \in {"new", "awaiting"}

\* jitExecutor.clearCache(generatorType); a call that throws changes nothing
ClearCacheOf(generatorType) ==
  /\ status # "hung"
  /\ Running
  /\ IF clearCacheThrows(generatorType)
     THEN UNCHANGED <<codeCache, log>>
     ELSE /\ codeCache' = clearCache(codeCache, generatorType)
          /\ log' = [type \in CodeGeneratorType |->
                       IF Falsy(generatorType) \/ generatorType = type
                       THEN NoLog ELSE log[type]]
  /\ UNCHANGED <<heap, pre, call, status, defaultGenerator, tasks>>

\* the arguments of clearCache
CacheNames == {Null, JAVASCRIPT, WASM, "native", "constructor", Empty}

ClearCache ==
  \E generatorType \in CacheNames : ClearCacheOf(generatorType)

\* the arguments of setDefaultGenerator
GeneratorNames == {JAVASCRIPT, WASM, "native", "constructor"}

\* setDefaultGenerator(generatorType) throws: this.generators[generatorType]
\* is falsy
setDefaultGeneratorThrows(generatorType) == PropertyOf(generatorType) = "undefined"

\* jitExecutor.setDefaultGenerator(generatorType)
SetDefaultGeneratorOf(generatorType) ==
  /\ status # "hung"
  /\ Running
  /\ defaultGenerator' = IF setDefaultGeneratorThrows(generatorType)
                         THEN defaultGenerator ELSE generatorType
  /\ UNCHANGED <<heap, pre, call, status, codeCache, tasks, log>>

SetDefaultGenerator ==
  \E generatorType \in GeneratorNames : SetDefaultGeneratorOf(generatorType)

ExecInit ==
  /\ constructor
  /\ heap = [n \in {"A", "B"} |->
               IF n = "A" THEN Painted(AWidth, AHeight, "bars")
               ELSE Painted(BWidth, BHeight, "checker")]
  /\ pre = heap
  /\ call = NoCall
  /\ status = "ready"

ExecNext ==
  \/ \E t \in 1..MaxTasks : Execute(t)
  \/ \E t \in 1..MaxTasks : Resume(t)
  \/ ClearCache
  \/ SetDefaultGenerator

ExecSpec == ExecInit /\ [][ExecNext]_vars

----------------------------------------------------------------------------
(* The calls of the bitmap primitives, one call per run on either bitmap.  *)

\* coordinates before, on and after the edges of a bitmap and of its first word
EdgeXs(bitmap) == {-1, 0, W - 1, W, bitmap.width - 1, bitmap.width}
EdgeYs(bitmap) == {-1, 0, bitmap.height - 1, bitmap.height}

\* a call of setPixel(bitmap, x, y, value)
SetPixel ==
  /\ status = "ready"
  /\ \E n \in {"A", "B"}, value \in {0, 1} :
       \E x \in EdgeXs(heap[n]), y \in EdgeYs(heap[n]) :
         /\ call' = [fn |-> "setPixel", dst |-> n, x |-> x, y |-> y,
                     width |-> 1, height |-> 1, value |-> value, result |-> 0]
         /\ heap' = [heap EXCEPT ![n] = setPixel(@, x, y, value)]
  /\ status' = "returned"
  /\ pre' = heap
  /\ UNCHANGED execVars

\* a call of getPixel(bitmap, x, y); result is the value it returns
GetPixel ==
  /\ status = "ready"
  /\ \E n \in {"A", "B"} :
       \E x \in EdgeXs(heap[n]), y \in EdgeYs(heap[n]) :
         call' = [fn |-> "getPixel", dst |-> n, x |-> x, y |-> y,
                  width |-> 1, height |-> 1, value |-> 0,
                  result |-> getPixel(heap[n], x, y)]
  /\ heap' = heap
  /\ status' = "returned"
  /\ pre' = heap
  /\ UNCHANGED execVars

\* the calls fn(bitmap, x, y, width, height, value) with rectangles that
\* start before, on and inside the bitmap, of whole words and not, empty
\* and negative
FillCalls(fn) ==
  {[fn |-> fn, dst |-> n, x |-> x, y |-> y, width |-> w, height |-> ht,
    value |-> value, result |-> 0] :
     n \in {"A", "B"}, x \in {-W, 0, 1, W}, y \in {-1, 0, 1},
     w \in {-W, 0, 3, W, 2 * W}, ht \in {-1, 0, 1, 2}, value \in {0, 1}}

\* a call of fillRect
FillRect ==
  /\ status = "ready"
  /\ \E c \in FillCalls("fillRect") :
       /\ call' = c
       /\ heap' = [heap EXCEPT ![c.dst] =
                     fillRect(@, c.x, c.y, c.width, c.height, c.value)]
  /\ status' = "returned"
  /\ pre' = heap
  /\ UNCHANGED execVars

\* a call of fillRectAligned
FillRectAligned ==
  /\ status = "ready"
  /\ \E c \in FillCalls("fillRectAligned") :
       /\ call' = c
       /\ heap' = [heap EXCEPT ![c.dst] =
                     fillRectAligned(@, c.x, c.y, c.width, c.height, c.value)]
  /\ status' = "returned"
  /\ pre' = heap
  /\ UNCHANGED execVars

BitmapNext ==
  SetPixel \/ GetPixel \/ FillRect \/ FillRectAligned \/ Bitblt \/ BitbltAligned

BitmapSpec == Init /\ [][BitmapNext]_vars

----------------------------------------------------------------------------
(* Vocabulary of the properties.  pre holds the bitmaps as they were when  *)
(* the call recorded in call was made.                                     *)

Returned == status = "returned"

Aliased == call.src = call.dst

\* the rectangle (x, y, w, h) lies inside the bitmap
Inside(bitmap, x, y, w, h) ==
  x >= 0 /\ y >= 0 /\ x + w <= bitmap.width /\ y + h <= bitmap.height

\* the call's source and destination rectangles are non-empty and in bounds
CallInBounds ==
  /\ call.width > 0 /\ call.height > 0
  /\ Inside(pre[call.src], call.srcX, call.srcY, call.width, call.height)
  /\ Inside(pre[call.dst], call.dstX, call.dstY, call.width, call.height)

\* pixel (x, y) lies in the call's destination rectangle
InDstRect(x, y) ==
  /\ call.dstX <= x /\ x < call.dstX + call.width
  /\ call.dstY <= y /\ y < call.dstY + call.height

\* pixel (x, y) is a pixel of the bitmap
IsPixel(bitmap, x, y) ==
  0 <= x /\ x < bitmap.width /\ 0 <= y /\ y < bitmap.height

\* the two bitmaps show the same pixels
SamePixels(b1, b2) ==
  /\ b1.width = b2.width /\ b1.height = b2.height
  /\ \A y \in 0..(b1.height - 1), x \in 0..(b1.width - 1) :
       getPixel(b1, x, y) = getPixel(b2, x, y)

\* every pair of in-range pixels of the rectangle shows the source's old value
PureShift ==
  \A j \in 0..(call.height - 1), i \in 0..(call.width - 1) :
    (IsPixel(pre[call.src], call.srcX + i, call.srcY + j)
       /\ IsPixel(pre[call.dst], call.dstX + i, call.dstY + j))
    => getPixel(heap[call.dst], call.dstX + i, call.dstY + j)
         = getPixel(pre[call.src], call.srcX + i, call.srcY + j)

\* no pixel of the destination outside the destination rectangle has changed
OutsideUnchanged ==
  \A y \in 0..(pre[call.dst].height - 1), x \in 0..(pre[call.dst].width - 1) :
    ~InDstRect(x, y)
    => getPixel(heap[call.dst], x, y) = getPixel(pre[call.dst], x, y)

\* word index of word i of row j of the call's source / destination rectangle
SrcWord(j, i) == (call.srcY + j) * pre[call.src].intsPerRow + (call.srcX \div W) + i
DstWord(j, i) == (call.dstY + j) * pre[call.dst].intsPerRow + (call.dstX \div W) + i

\* every destination word of the rectangle holds the source word's old value
WordShift ==
  \A j \in 0..(call.height - 1), i \in 0..((call.width \div W) - 1) :
    Get(heap[call.dst].data, DstWord(j, i)) = Get(pre[call.src].data, SrcWord(j, i))

\* no word of the destination outside the destination rectangle has changed
WordsOutsideUnchanged ==
  /\ DOMAIN heap[call.dst].data = DOMAIN pre[call.dst].data
  /\ \A k \in DOMAIN pre[call.dst].data :
       (\A j \in 0..(call.height - 1), i \in 0..((call.width \div W) - 1) :
          k # DstWord(j, i))
       => heap[call.dst].data[k] = pre[call.dst].data[k]

----------------------------------------------------------------------------
(* C1: for every call, the destination after jitBitBlt shows the same      *)
(* pixels as the destination after bitblt run on the same bitmaps,         *)
(* aliased or not, for all four operators.                                 *)
JitMatchesOracle ==
  call.fn = "jitBitBlt"
  => /\ Returned
     /\ SamePixels(heap[call.dst], bitblt(pre, call)[call.dst])

(* C2: an in-bounds in-place COPY through jitBitBlt leaves every           *)
(* destination pixel (dstX+i, dstY+j) with the value pixel (srcX+i,        *)
(* srcY+j) had before the call, for any offsets.                           *)
JitInPlaceCopyIsShift ==
  (call.fn = "jitBitBlt" /\ Aliased /\ call.op = COPY /\ CallInBounds)
  => Returned /\ PureShift

\* an overlapping in-place right shift where the forward order would smear
JitInPlaceCopyWitness ==
  /\ call.fn = "jitBitBlt" /\ Aliased /\ call.op = COPY /\ CallInBounds
  /\ Returned
  /\ call.srcX < call.dstX /\ call.dstX < call.srcX + call.width
  /\ call.srcY < call.dstY /\ call.dstY < call.srcY + call.height
  /\ heap # pre
  /\ ~SamePixels(heap[call.dst], bitblt(pre, call)[call.dst])

(* C3: an in-place right shift of one row through bitblt, srcX < dstX <    *)
(* srcX+width and in bounds, leaves every pixel (dstX+i, y) with the old   *)
(* value of pixel (srcX+i, y) and changes nothing outside the rectangle.   *)
BitbltRightShiftIsShift ==
  (/\ call.fn = "bitblt" /\ Aliased /\ call.op = COPY /\ CallInBounds
   /\ call.height = 1 /\ call.srcY = call.dstY
   /\ call.srcX < call.dstX /\ call.dstX < call.srcX + call.width)
  => Returned /\ PureShift /\ OutsideUnchanged

(* C4: an in-place COPY through bitblt with dstY < srcY, whatever the      *)
(* horizontal offset, leaves every destination pixel with the old value    *)
(* of its source pixel and changes nothing outside the rectangle.          *)
BitbltUpShiftIsShift ==
  (call.fn = "bitblt" /\ Aliased /\ call.op = COPY /\ call.dstY < call.srcY)
  => Returned /\ PureShift /\ OutsideUnchanged

\* a diagonal shift up and to the right whose rows and columns overlap
BitbltUpShiftWitness ==
  /\ call.fn = "bitblt" /\ Aliased /\ call.op = COPY /\ CallInBounds
  /\ Returned
  /\ call.dstY < call.srcY /\ call.srcY < call.dstY + call.height
  /\ call.srcX < call.dstX /\ call.dstX < call.srcX + call.width
  /\ heap # pre

(* C5: an in-place right shift by whole words through bitbltAligned,       *)
(* srcX < dstX < srcX+width on the same rows and in bounds, leaves every   *)
(* destination word with the old value of its source word and changes no   *)
(* word outside the rectangle.                                             *)
AlignedRightShiftIsShift ==
  (/\ call.fn = "bitbltAligned" /\ Aliased /\ call.op = COPY /\ CallInBounds
   /\ ~Unaligned(call) /\ call.srcY = call.dstY
   /\ call.srcX < call.dstX /\ call.dstX < call.srcX + call.width)
  => Returned /\ WordShift /\ WordsOutsideUnchanged

(* C6: an in-place upward shift through bitbltAligned, equal word-aligned  *)
(* columns, dstY < srcY with overlapping rows and in bounds, leaves every  *)
(* destination word with the old value of its source word and changes no   *)
(* word outside the rectangle.                                             *)
AlignedUpShiftIsShift ==
  (/\ call.fn = "bitbltAligned" /\ Aliased /\ call.op = COPY /\ CallInBounds
   /\ ~Unaligned(call) /\ call.srcX = call.dstX
   /\ call.dstY < call.srcY /\ call.srcY < call.dstY + call.height)
  => Returned /\ WordShift /\ WordsOutsideUnchanged

\* such a shift of two rows up by one, which changed the bitmap
AlignedUpShiftWitness ==
  /\ call.fn = "bitbltAligned" /\ Aliased /\ call.op = COPY /\ CallInBounds
  /\ ~Unaligned(call) /\ call.srcX = call.dstX
  /\ call.dstY < call.srcY /\ call.srcY < call.dstY + call.height
  /\ Returned /\ heap # pre

(* C7: for aligned dstX, srcX and width (any rows, height, bitmap sizes    *)
(* and op) bitbltAligned leaves the destination with the same pixels as    *)
(* bitblt on the same arguments; for unaligned arguments it does what      *)
(* bitblt does.                                                            *)
AlignedMatchesOracle ==
  call.fn = "bitbltAligned"
  => /\ Returned
     /\ IF Unaligned(call)
        THEN heap = bitblt(pre, call)
        ELSE SamePixels(heap[call.dst], bitblt(pre, call)[call.dst])

(* C8: for aligned dstX, srcX and width (of positive size) and every op,   *)
(* jitBitBltAligned leaves the bitmaps as bitbltAligned leaves them on the *)
(* same arguments, overlapping in-place shifts included.                   *)
JitAlignedMatchesAligned ==
  (/\ call.fn = "jitBitBltAligned" /\ ~Unaligned(call)
   /\ call.width > 0 /\ call.height > 0)
  => Returned /\ heap = bitbltAligned(pre, call)

(* C9: through bitblt and jitBitBlt a destination pixel changes only if    *)
(* it lies in the destination rectangle and its source pixel lies in the   *)
(* source bitmap, and no word outside the destination's storage is         *)
(* written.                                                                *)
BlitIsClipped ==
  call.fn \in {"bitblt", "jitBitBlt"}
  => /\ Returned
     /\ DOMAIN heap[call.dst].data = DOMAIN pre[call.dst].data
     /\ \A y \in 0..(pre[call.dst].height - 1), x \in 0..(pre[call.dst].width - 1) :
          getPixel(heap[call.dst], x, y) # getPixel(pre[call.dst], x, y)
          => /\ InDstRect(x, y)
             /\ IsPixel(pre[call.src], call.srcX + (x - call.dstX),
                        call.srcY + (y - call.dstY))

(* C10: a call with width <= 0 or height <= 0 through any of the four      *)
(* entry points returns and leaves every word of the bitmaps unchanged.    *)
EmptyBlitIsNoOp ==
  (call.fn # "none" /\ (call.width <= 0 \/ call.height <= 0))
  => Returned /\ heap = pre

\* the truth table of the four operators on pixel values 0 and 1
Combine(op, s, d) ==
  CASE op = COPY -> s
    [] op = AND -> s * d
    [] op = OR -> s + d - s * d
    [] op = XOR -> (s + d) % 2

(* C11: when src and dst are different bitmaps and the rectangle is in     *)
(* bounds, after bitblt each destination pixel of the rectangle is src     *)
(* (COPY), src AND old dst, src OR old dst or src XOR old dst of the       *)
(* corresponding pixels, and no destination pixel outside the rectangle    *)
(* has changed.                                                            *)
BitbltAppliesOperator ==
  (call.fn = "bitblt" /\ ~Aliased /\ CallInBounds)
  => /\ Returned
     /\ \A j \in 0..(call.height - 1), i \in 0..(call.width - 1) :
          getPixel(heap[call.dst], call.dstX + i, call.dstY + j)
            = Combine(call.op,
                      getPixel(pre[call.src], call.srcX + i, call.srcY + j),
                      getPixel(pre[call.dst], call.dstX + i, call.dstY + j))
     /\ OutsideUnchanged

\* an XOR across a word boundary that set a pixel and cleared another
BitbltAppliesOperatorWitness ==
  /\ call.fn = "bitblt" /\ ~Aliased /\ CallInBounds /\ Returned
  /\ call.op = XOR /\ call.width = 3 /\ call.height = 2 /\ call.dstX = W - 1
  /\ \E j \in 0..1, i \in 0..2 :
       /\ getPixel(pre[call.dst], call.dstX + i, call.dstY + j) = 0
       /\ getPixel(heap[call.dst], call.dstX + i, call.dstY + j) = 1
  /\ \E j \in 0..1, i \in 0..2 :
       /\ getPixel(pre[call.dst], call.dstX + i, call.dstY + j) = 1
       /\ getPixel(heap[call.dst], call.dstX + i, call.dstY + j) = 0

----------------------------------------------------------------------------
(* Vocabulary of the executor's properties.                                *)

\* execute call t takes its first step: from the call to its first await,
\* its return or its error
Starts(t) == tasks[t].pc = "new" /\ tasks'[t].pc # "new"

\* execute call t looks up a key for which an execute of its generator has
\* completed / has looked the key up since the generator's cache was last
\* cleared
StartsAfterCompleted(t) ==
  /\ Starts(t) /\ tasks'[t].key # NoKey
  /\ tasks'[t].key \in log[tasks'[t].type].completed

StartsFirst(t) ==
  /\ Starts(t) /\ tasks'[t].key # NoKey
  /\ tasks'[t].key \notin log[tasks'[t].type].started

\* execute call t runs its routine to the end and returns
Completes(t) == tasks[t].pc # "done" /\ tasks'[t].pc = "done"

\* the call's rectangle is empty, as given or after clipping
Degenerate(c) ==
  \/ c.width <= 0 \/ c.height <= 0
  \/ ActualWidth(heap, c) <= 0 \/ ActualHeight(heap, c) <= 0

(* C12: an execute with width <= 0 or height <= 0, or with a rectangle     *)
(* that is empty after clipping, computes no cache key, looks nothing up,  *)
(* generates nothing, inserts nothing and runs no routine: its first step  *)
(* is its last and leaves the caches, their history and the bitmaps        *)
(* unchanged.                                                              *)
DegenerateSkipsCache ==
  [][\A t \in 1..MaxTasks :
       (Starts(t) /\ Degenerate(tasks'[t].c))
       => /\ tasks'[t].key = NoKey
          /\ tasks'[t].pc # "awaiting"
          /\ UNCHANGED <<heap, codeCache, log>>]_vars

(* C13: between two clears of a generator's cache, generateCode is called  *)
(* at most once for each cache key, whatever the interleaving of the       *)
(* execute calls.                                                          *)
AtMostOneGeneration ==
  \A type \in CodeGeneratorType :
    \A key \in DOMAIN log[type].generated : log[type].generated[key] <= 1

(* C14: once an execute for a generator and key has completed, the         *)
(* generator's cache holds the key until the cache is cleared, whatever    *)
(* other keys are inserted; and an execute for that generator and key      *)
(* that starts after the first completed, with no clear in between, finds  *)
(* the key, calls no generateCode and runs the routine the cache holds.    *)
CacheHitNoEviction ==
  [][/\ \A type \in CodeGeneratorType :
          log'[type].completed \subseteq DOMAIN codeCache'[type]
     /\ \A t \in 1..MaxTasks :
          StartsAfterCompleted(t)
          => /\ tasks'[t].hit
             /\ tasks'[t].pc # "awaiting"
             /\ log'[tasks'[t].type].generated = log[tasks'[t].type].generated
             /\ tasks'[t].code = CacheGet(codeCache[tasks'[t].type], tasks'[t].key)]_vars

(* C15: clearCache(b) for a registered generator b empties b's cache and   *)
(* leaves the other caches and the default generator unchanged;            *)
(* clearCache() empties every cache; and the first execute for a key       *)
(* after a clear misses and generates the routine again.                   *)
ClearCacheRegenerates ==
  [][/\ \A b \in CodeGeneratorType :
          ClearCacheOf(b)
          => /\ codeCache'[b] = EmptyMap
             /\ \A other \in CodeGeneratorType \ {b} :
                  codeCache'[other] = codeCache[other]
             /\ defaultGenerator' = defaultGenerator
     /\ ClearCacheOf(Null)
        => /\ \A b \in CodeGeneratorType : codeCache'[b] = EmptyMap
           /\ defaultGenerator' = defaultGenerator
     /\ \A t \in 1..MaxTasks :
          StartsFirst(t)
          => /\ ~tasks'[t].hit
             /\ tasks'[t].key \in DOMAIN log'[tasks'[t].type].generated]_vars

(* C16: setDefaultGenerator with a name that is no registered generator    *)
(* throws and leaves the default unchanged, with a registered name it sets *)
(* the default; so the default generator is always a registered one and an *)
(* execute without a generator type never fails for an unknown generator.  *)
DefaultGeneratorIsRegistered ==
  [][/\ \A name \in GeneratorNames :
          SetDefaultGeneratorOf(name)
          => IF name \in CodeGeneratorType
             THEN ~setDefaultGeneratorThrows(name) /\ defaultGenerator' = name
             ELSE setDefaultGeneratorThrows(name)
                    /\ defaultGenerator' = defaultGenerator
     /\ defaultGenerator' \in CodeGeneratorType
     /\ \A t \in 1..MaxTasks :
          (Starts(t) /\ tasks'[t].c.generatorType = Null)
          => tasks'[t].pc # "threw"]_vars

(* C17: an execute whose rectangles are in bounds leaves the destination   *)
(* with the pixels bitblt gives for the call's own coordinates, also when  *)
(* it runs a routine the cache holds from a call of the same shape at      *)
(* other coordinates, and whether or not the cache was cleared in between. *)
ExecuteMatchesOracle ==
  [][\A t \in 1..MaxTasks :
       (Completes(t) /\ ~Degenerate(tasks'[t].c))
       => SamePixels(heap'[tasks'[t].c.dst],
                     bitblt(heap, tasks'[t].c)[tasks'[t].c.dst])]_vars

----------------------------------------------------------------------------
(* Properties of the bitmap primitives.                                    *)

\* the call addresses a pixel of its bitmap
PixelInRange == IsPixel(pre[call.dst], call.x, call.y)

(* C18: after any call of setPixel, getPixel, fillRect, fillRectAligned,   *)
(* bitblt or bitbltAligned on bitmaps made by createBitmap and setPixel,   *)
(* every bitmap's data has length height * intsPerRow and holds values at  *)
(* the indices 0 .. length-1 only; getPixel out of range returns 0 and     *)
(* setPixel out of range changes nothing.                                  *)
StorageInvariant ==
  /\ \A n \in DOMAIN heap :
       /\ Length(heap[n].data) = heap[n].height * heap[n].intsPerRow
       /\ DOMAIN heap[n].data = 0..(heap[n].height * heap[n].intsPerRow - 1)
  /\ (call.fn = "getPixel" /\ ~PixelInRange) => call.result = 0
  /\ (call.fn = "setPixel" /\ ~PixelInRange) => heap = pre

(* C19: setPixel(b, x, y, v) for in-range (x, y) and v in {0, 1} changes   *)
(* no bit of the bitmaps but bit 31 - (x mod 32) of word                   *)
(* y * intsPerRow + floor(x / 32), which then holds v; a following         *)
(* getPixel(b, x, y) returns v and getPixel of every other pixel returns   *)
(* what it returned before.                                                *)
SetPixelRoundTrip ==
  (call.fn = "setPixel" /\ PixelInRange)
  => LET before == pre[call.dst]
         after == heap[call.dst]
         word == call.y * before.intsPerRow + (call.x \div W)
         bit == (W - 1) - (call.x % W)
     IN /\ Returned
        /\ \A n \in DOMAIN heap \ {call.dst} : heap[n] = pre[n]
        /\ DOMAIN after.data = DOMAIN before.data
        /\ \A idx \in DOMAIN before.data, b \in 0..(W - 1) :
             <<idx, b>> # <<word, bit>>
             => ((b \in after.data[idx]) <=> (b \in before.data[idx]))
        /\ (bit \in after.data[word]) <=> (call.value = 1)
        /\ getPixel(after, call.x, call.y) = call.value
        /\ \A y \in 0..(before.height - 1), x \in 0..(before.width - 1) :
             <<x, y>> # <<call.x, call.y>>
             => getPixel(after, x, y) = getPixel(before, x, y)

\* pixels on both sides of a word boundary were set and were cleared
SetPixelWitness ==
  /\ call.fn = "setPixel" /\ PixelInRange /\ Returned
  /\ call.x \in {W - 1, W} /\ call.y > 0
  /\ getPixel(pre[call.dst], call.x, call.y) # call.value
  /\ getPixel(heap[call.dst], call.x, call.y) = call.value

(* C20: for every x, y, width, height and value fillRectAligned leaves the *)
(* bitmap with the pixels fillRect leaves with the same arguments; it does *)
(* what fillRect does when x or width is no multiple of 32, and otherwise  *)
(* changes words only in the rows and word columns of the rectangle that   *)
(* lie in the bitmap.                                                      *)
FillAlignedMatchesFill ==
  call.fn = "fillRectAligned"
  => LET before == pre[call.dst]
         after == heap[call.dst]
         filled == fillRect(before, call.x, call.y, call.width, call.height,
                            call.value)
     IN /\ Returned
        /\ SamePixels(after, filled)
        /\ IF JsRem(call.x, W) # 0 \/ JsRem(call.width, W) # 0
           THEN after = filled
           ELSE /\ DOMAIN after.data = DOMAIN before.data
                /\ \A idx \in DOMAIN before.data :
                     after.data[idx] # before.data[idx]
                     => LET row == idx \div before.intsPerRow
                            col == idx % before.intsPerRow
                        IN /\ call.y <= row /\ row < call.y + call.height
                           /\ call.x <= W * col /\ W * col < call.x + call.width

----------------------------------------------------------------------------
(* Further properties of the transfer routines.                            *)

(* C21: every call of bitblt, bitbltAligned, jitBitBlt and                 *)
(* jitBitBltAligned returns, for all arguments: the loops of the generated *)
(* routines reach their end index also when the clipped width or height is *)
(* zero or negative.                                                       *)
BlitTerminates ==
  call.fn \in {"bitblt", "bitbltAligned", "jitBitBlt", "jitBitBltAligned"}
  => status = "returned"

\* the loop bounds of a routine: from 0 up to n, or from n - 1 down to -1
Forward(n) == [start |-> 0, end |-> n, step |-> 1]
Backward(n) == [start |-> n - 1, end |-> -1, step |-> -1]

(* C22: the routine generateBitBltFunction generates for a call iterates   *)
(* the columns right-to-left exactly when src and dst are the same bitmap, *)
(* srcX < dstX and srcX + actualWidth > dstX, and left-to-right otherwise; *)
(* the rows bottom-to-top exactly when same bitmap, srcY < dstY and        *)
(* srcY + actualHeight > dstY, and top-to-bottom otherwise; each choice    *)
(* depends on its own axis only, and both are forward for two bitmaps.     *)
DirectionSelection ==
  (call.fn = "jitBitBlt" /\ call.width > 0 /\ call.height > 0)
  => LET f == generateBitBltFunction(pre, call)
         actualWidth == ActualWidth(pre, call)
         actualHeight == ActualHeight(pre, call)
         rightToLeft == /\ Aliased /\ call.srcX < call.dstX
                        /\ call.srcX + actualWidth > call.dstX
         bottomToTop == /\ Aliased /\ call.srcY < call.dstY
                        /\ call.srcY + actualHeight > call.dstY
     IN /\ [start |-> f.xStart, end |-> f.xEnd, step |-> f.xStep]
             = IF rightToLeft THEN Backward(actualWidth) ELSE Forward(actualWidth)
        /\ [start |-> f.yStart, end |-> f.yEnd, step |-> f.yStep]
             = IF bottomToTop THEN Backward(actualHeight) ELSE Forward(actualHeight)
        /\ ~Aliased => f.xStep = 1 /\ f.yStep = 1

\* an in-place call whose source starts before the destination on both
\* axes, whose columns do not intersect and whose rows do: it ran its
\* columns forward and its rows backward, and changed the bitmap
DirectionSelectionWitness ==
  /\ call.fn = "jitBitBlt" /\ Aliased /\ CallInBounds /\ Returned
  /\ call.srcX < call.dstX /\ call.srcX + call.width <= call.dstX
  /\ call.srcY < call.dstY /\ call.srcY + call.height > call.dstY
  /\ generateBitBltFunction(pre, call).xStep = 1
  /\ generateBitBltFunction(pre, call).yStep = -1
  /\ heap # pre

\* the call's source and destination rectangles share a pixel position
RectsOverlap ==
  /\ call.srcX < call.dstX + call.width /\ call.dstX < call.srcX + call.width
  /\ call.srcY < call.dstY + call.height /\ call.dstY < call.srcY + call.height

(* C23: when src and dst are the same bitmap and the in-bounds source and  *)
(* destination rectangles overlap, after jitBitBlt with AND, OR or XOR     *)
(* every destination pixel holds the operator applied to the values its    *)
(* source pixel and the destination pixel had before the call.             *)
JitInPlaceOpReadsOriginals ==
  (/\ call.fn = "jitBitBlt" /\ Aliased /\ call.op \in {AND, OR, XOR}
   /\ CallInBounds /\ RectsOverlap)
  => /\ Returned
     /\ \A j \in 0..(call.height - 1), i \in 0..(call.width - 1) :
          getPixel(heap[call.dst], call.dstX + i, call.dstY + j)
            = Combine(call.op,
                      getPixel(pre[call.src], call.srcX + i, call.srcY + j),
                      getPixel(pre[call.dst], call.dstX + i, call.dstY + j))

\* an in-place XOR down and to the right over overlapping rectangles, whose
\* result differs from what the forward order of bitblt gives
JitInPlaceOpWitness ==
  /\ call.fn = "jitBitBlt" /\ Aliased /\ call.op = XOR
  /\ CallInBounds /\ RectsOverlap /\ Returned
  /\ call.srcX < call.dstX /\ call.srcY < call.dstY
  /\ heap # pre
  /\ ~SamePixels(heap[call.dst], bitblt(pre, call)[call.dst])

(* C24: for every call of jitBitBltAligned with dstX, srcX and width       *)
(* multiples of 32, the x and y directions it computes from word indices   *)
(* are the directions generateBitBltFunction computes from pixel indices   *)
(* for the same arguments and bitmaps.                                     *)
WordDirectionsMatchPixelDirections ==
  (call.fn = "jitBitBltAligned" /\ ~Unaligned(call))
  => /\ generateAlignedFunction(pre, call).xStep
          = generateBitBltFunction(pre, call).xStep
     /\ generateAlignedFunction(pre, call).yStep
          = generateBitBltFunction(pre, call).yStep

(* C26: for every x, y, width, height and value, after fillRect the pixels *)
(* of the bitmap that lie in the rectangle hold the value, every other     *)
(* pixel holds what it held before, and no storage is added; rectangles    *)
(* partly or wholly outside the bitmap and negative origins included.      *)
FillRectIsClipped ==
  call.fn = "fillRect"
  => LET before == pre[call.dst]
         after == heap[call.dst]
     IN /\ Returned
        /\ \A n \in DOMAIN heap \ {call.dst} : heap[n] = pre[n]
        /\ after.width = before.width /\ after.height = before.height
        /\ after.intsPerRow = before.intsPerRow
        /\ DOMAIN after.data = DOMAIN before.data
        /\ \A y \in 0..(before.height - 1), x \in 0..(before.width - 1) :
             getPixel(after, x, y)
               = IF /\ call.x <= x /\ x < call.x + call.width
                    /\ call.y <= y /\ y < call.y + call.height
                 THEN call.value
                 ELSE getPixel(before, x, y)

\* a rectangle that starts above and left of the bitmap and reaches into
\* it: the fill changed the bitmap
FillRectWitness ==
  /\ call.fn = "fillRect" /\ Returned
  /\ call.x < 0 /\ call.y < 0
  /\ call.x + call.width > 0 /\ call.y + call.height > 0
  /\ heap # pre

\* the fields of a bitmap that describe its shape
Shape(bitmap) ==
  [width |-> bitmap.width, height |-> bitmap.height, intsPerRow |-> bitmap.intsPerRow]

(* C29: when src and dst are different bitmaps, bitblt, bitbltAligned,     *)
(* jitBitBlt and jitBitBltAligned leave the source bitmap unchanged, every *)
(* word of it, and leave the width, height and intsPerRow of the           *)
(* destination unchanged, for all arguments.                               *)
SourceIsReadOnly ==
  (/\ call.fn \in {"bitblt", "bitbltAligned", "jitBitBlt", "jitBitBltAligned"}
   /\ ~Aliased)
  => /\ heap[call.src] = pre[call.src]
     /\ Shape(heap[call.dst]) = Shape(pre[call.dst])

\* an XOR from the other bitmap that changed the destination
SourceIsReadOnlyWitness ==
  /\ call.fn = "bitblt" /\ ~Aliased /\ Returned /\ call.op = XOR
  /\ heap[call.dst] # pre[call.dst]
  /\ heap[call.src] = pre[call.src]

\* the bitmaps after the call of the state is made once more, with the same
\* arguments, on the bitmaps it left
Again ==
  IF call.fn = "bitblt" THEN bitblt(heap, call) ELSE jitBitBlt(heap, call)

(* C30: when src and dst are different bitmaps, the same blit with op XOR  *)
(* made twice through bitblt or jitBitBlt restores the destination to      *)
(* exactly its state before the first call; COPY, AND or OR made twice     *)
(* gives the same destination as made once.                                *)
XorIsInvolution ==
  (/\ call.fn \in {"bitblt", "jitBitBlt"}
   /\ ~Aliased
   /\ Returned)
  => IF call.op = XOR
     THEN Again[call.dst] = pre[call.dst]
     ELSE Again[call.dst] = heap[call.dst]

----------------------------------------------------------------------------
(* Further properties of the executor.                                     *)

\* execute call t invokes executeCode
Invokes(t) == tasks[t].pc \in {"new", "awaiting"} /\ tasks'[t].pc \in {"done", "hung"}

\* execute call t has returned, thrown, or is stuck in its routine
Finished(t) == tasks[t].pc \in {"done", "hung", "threw"}

(* C25: under interleaved execute calls every cache entry is the routine   *)
(* of an execute whose generateCode has resolved; a key is inserted only   *)
(* in the step in which an execute resumes from its await; and an execute  *)
(* that does not throw invokes executeCode once, with the routine it found *)
(* in the cache or the one generated for it, and never again.              *)
NoPartialRoutine ==
  [][/\ \A type \in CodeGeneratorType :
          \A key \in DOMAIN codeCache'[type] :
            /\ \E t \in 1..MaxTasks :
                 /\ tasks'[t].pc \in {"done", "hung"} /\ ~tasks'[t].hit
                 /\ tasks'[t].stored = type /\ tasks'[t].key = key
                 /\ tasks'[t].code = codeCache'[type][key]
            /\ key \notin DOMAIN codeCache[type]
               => \E t \in 1..MaxTasks :
                    /\ tasks[t].pc = "awaiting" /\ tasks'[t].pc # "awaiting"
                    /\ tasks'[t].stored = type /\ tasks[t].key = key
     /\ \A t \in 1..MaxTasks :
          /\ Invokes(t)
             => IF tasks'[t].hit
                THEN /\ tasks[t].pc = "new"
                     /\ CacheHas(codeCache[tasks'[t].type], tasks'[t].key)
                     /\ tasks'[t].code
                          = CacheGet(codeCache[tasks'[t].type], tasks'[t].key)
                ELSE /\ tasks[t].pc = "awaiting"
                     /\ tasks'[t].code = generateCode(heap, tasks'[t].c)
          /\ Finished(t) => tasks'[t] = tasks[t]
     /\ heap' # heap => \E t \in 1..MaxTasks : Completes(t)]_vars

\* two executes for one key overlapped: the second looked the key up while
\* the first awaited its code, missed, and both ran their own routine
NoPartialRoutineWitness ==
  /\ tasks[1].pc = "done" /\ ~tasks[1].hit
  /\ tasks[2].pc = "done" /\ ~tasks[2].hit
  /\ tasks[1].key = tasks[2].key /\ tasks[1].type = tasks[2].type
  /\ tasks[1].stored = tasks[1].type /\ tasks[2].stored = tasks[2].type
  /\ tasks[1].key \in DOMAIN log[tasks[1].type].generated
  /\ log[tasks[1].type].generated[tasks[1].key] = 2
  /\ tasks[1].key \in DOMAIN codeCache[tasks[1].type]

(* C28: after any interleaving of execute, setDefaultGenerator and         *)
(* clearCache calls, every routine is stored in the cache of the generator *)
(* that generated it, under that generator's key, and is run by that same  *)
(* generator: an execute that stores a routine stores it in the cache of   *)
(* the generator it resolved when it was called.                           *)
CacheEntriesBelongToGenerator ==
  \A t \in 1..MaxTasks :
    tasks[t].stored # Null
    => /\ tasks[t].stored = tasks[t].type
       /\ tasks[t].key = getCacheKey(heap, tasks[t].c)

\* the generator types given to execute and clearCache that are not
\* registered
UnknownNames ==
  ({c.generatorType : c \in ExecCalls} \cup CacheNames) \ (CodeGeneratorType \cup {Null})

(* C27: execute with an explicit generator type that is not registered     *)
(* and clearCache with a type that is not registered fail with an error    *)
(* and touch no state: the caches, the default generator and the bitmaps   *)
(* are as before, so that later calls behave as if the failed call had not *)
(* been made.                                                              *)
UnknownGeneratorFailsCleanly ==
  [][/\ \A t \in 1..MaxTasks :
          (Starts(t) /\ tasks'[t].c.generatorType \in UnknownNames)
          => /\ tasks'[t].pc = "threw"
             /\ UNCHANGED <<heap, codeCache, defaultGenerator>>
     /\ \A generatorType \in UnknownNames :
          ClearCacheOf(generatorType)
          => /\ clearCacheThrows(generatorType)
             /\ UNCHANGED <<heap, codeCache, defaultGenerator, tasks>>]_vars

====
